---- MODULE Spec2Model ----
(***************************************************************************)
(* A model of fuse-bgzip (src/fuse-bgzip.c): the overlay that shows        *)
(* <file> in place of the pair <file>.gz / <file>.gz.gzi.                  *)
(*                                                                         *)
(* Path strings are sequences of one-character strings, so that the suffix *)
(* tests of the code (strlen, strcmp on the tail) are modelled character   *)
(* by character.  The backing store is the set of regular files that       *)
(* exist below the mount directory; two directories exist, the mount root  *)
(* and "d".  The handlers run one at a time (main passes "-s" to fuse).    *)
(***************************************************************************)
EXTENDS Integers, Sequences, FiniteSets, TLC

VARIABLES
    dir,        \* the directory of the backing store that holds the files
    store,      \* backing store: the set of paths of the regular files
    changed,    \* history: the backing store changed after the mount
    tdb,        \* decision cache (tdb): path |-> verdict byte
    hist,       \* history: path |-> first verdict, number of tdb_store calls
    sizeCache,  \* ~/.fuse-bgzip/<base>.size files: base |-> stored size
    idxCache,   \* ~/.fuse-bgzip/<base>.gz.gzi files: name |-> words
    handles,    \* struct file objects handed out by open, by handle number
    badClose,   \* history: a closed stream/descriptor was closed again
    badFree,    \* history: a freed struct file was freed again
    last,       \* observation of the request served last
    container,  \* the <file>.gz files of the store: [len, stale, other]
    index,      \* the <file>.gz.gzi files of the store: kind of content
    inflight,   \* requests the bridge has handed to a handler, by worker
    proc        \* the process: [pc, args, fault, status]

\* what lies beside the caches and handles: file contents, the requests in
\* progress and the process itself
env == <<container, index, inflight, proc>>

vars == <<dir, store, changed, tdb, hist, sizeCache, idxCache,
          handles, badClose, badFree, last, container, index, inflight,
          proc>>

-----------------------------------------------------------------------------
(* Bounds of the model.                                                    *)

\* uncompressed length of every container
ULen == 3
\* uncompressed bytes per bgzip block of a container
BlockLen == 2
\* bytes returned at most by one read of the end-of-stream scan (buf[4096])
BufSize == 2
\* simultaneously allocated struct file objects
MaxHandles == 1

(* errno values.                                                           *)
ENOENT == 2
EIO == 5
EBADF == 9
EACCES == 13

-----------------------------------------------------------------------------
(* Strings.                                                                *)

GZ == <<".", "g", "z">>
GZI == <<".", "g", "z", "i">>
SLASH == <<"/">>
DOT == <<".">>
DOTDOT == <<".", ".">>
ROOT == <<>>
DirD == <<"d">>

EndsWith(s, suf) ==
    /\ Len(s) >= Len(suf)
    /\ SubSeq(s, Len(s) - Len(suf) + 1, Len(s)) = suf

DropLast(s, n) == SubSeq(s, 1, Len(s) - n)

\* index of the last '/' of s, 0 when there is none (strrchr)
RECURSIVE LastSlash(_, _)
LastSlash(s, i) ==
    IF i = 0 THEN 0
    ELSE IF s[i] = "/" THEN i
    ELSE LastSlash(s, i - 1)

\* ptr = strrchr(path, '/'); ptr ? ptr + 1 : path
Basename(s) == SubSeq(s, LastSlash(s, Len(s)) + 1, Len(s))

\* if (path[0] == '/') path++
SkipSlash(path) ==
    IF Len(path) > 0 /\ path[1] = "/" THEN Tail(path) ELSE path

-----------------------------------------------------------------------------
(* The backing store.                                                      *)

A == <<"a">>

\* a logical file, its container and the index of the container
CoreNames == { A, A \o GZ, A \o GZ \o GZI }

\* the names a file of the backing store may have
Names == CoreNames \cup { A \o GZI \o GZ, A \o GZ \o GZ,
                          A \o GZ \o GZ \o GZI }

\* the names the requests ask for
QueryNames == Names \cup { A \o GZI }

\* the order in which readdir(3) returns the names that exist
NameOrder == << DOT, A \o GZ \o GZI, A, A \o GZ \o GZ, DirD, A \o GZ,
                A \o GZ \o GZ \o GZI, DOTDOT, A \o GZI \o GZ, A \o GZI >>

Dirs == { ROOT, DirD }

\* the path, relative to the mount directory, of name n in directory D
PathIn(D, n) == IF D = ROOT THEN n ELSE D \o SLASH \o n

\* the path the protocol bridge hands to a handler
FusePath(p) == SLASH \o p

\* paths that resolve to a directory
DirPaths == { DOT, DOTDOT, DirD, DirD \o SLASH,
              DirD \o SLASH \o DOT, DirD \o SLASH \o DOTDOT }

\* fstatat(dir_fd, p, &st, ...) == 0
Exists(s, p) == p \in s \/ p \in DirPaths

\* the directory of path p: what precedes its last '/'
DirOf(p) ==
    LET i == LastSlash(p, Len(p))
    IN  IF i = 0 THEN ROOT ELSE SubSeq(p, 1, i - 1)

\* the uncompressed length of the container stored at path p: len for the
\* containers of dir, other for those of the other directory
ContainerLen(p) ==
    IF DirOf(p) = dir THEN container.len ELSE container.other

\* st_size of a physical file; that of a container grows with its content
PhysSize(p) ==
    IF p \in DirPaths \/ p = <<>> THEN 0
    ELSE IF EndsWith(p, GZ) THEN Len(Basename(p)) + ContainerLen(p)
    ELSE Len(Basename(p))

\* struct stat of a physical file: file stands for mode, owner, times, inode
Meta(p) == [file |-> p, size |-> PhysSize(p)]

NoStat == [file |-> <<"?">>, size |-> 0]

\* the words (8 bytes each) of the index file of a container of length len:
\* the count N, then the records (compressed offset, uncompressed offset)
\* of blocks 0..N
RECURSIVE IndexRecords(_, _)
IndexRecords(k, n) ==
    IF k > n THEN <<>>
    ELSE <<k, k * BlockLen>> \o IndexRecords(k + 1, n)

IndexWords(len) ==
    LET n == IF len = 0 THEN 0 ELSE (len - 1) \div BlockLen
    IN  <<n>> \o IndexRecords(0, n)

-----------------------------------------------------------------------------
(* need_bgzip_uncompress.                                                  *)

\* the two suffix tests of need_bgzip_uncompress
Strip(file) ==
    LET s1 == IF Len(file) > 4 /\ EndsWith(file, GZI)
              THEN DropLast(file, 4) ELSE file
    IN  IF Len(s1) > 3 /\ EndsWith(s1, GZ) THEN DropLast(s1, 3) ELSE s1

\* tdb_store(tdb, key, data, TDB_REPLACE)
TdbStore(t, key, val) ==
    [k \in DOMAIN t \cup {key} |-> IF k = key THEN val ELSE t[k]]

\* Probe with the index looked for at "%s.gzi" instead of "%s.gz.gzi"
ProbeWrongIndex(file, s, errno) ==
    LET stripped == Strip(file)
    IN  IF Exists(s, stripped)
        THEN [ret |-> 0, probes |-> 1, errno |-> errno]
        ELSE IF ~Exists(s, stripped \o GZ)
        THEN [ret |-> 0, probes |-> 2, errno |-> ENOENT]
        ELSE IF ~Exists(s, stripped \o GZI)
        THEN [ret |-> 0, probes |-> 3, errno |-> ENOENT]
        ELSE [ret |-> 1, probes |-> 3, errno |-> ENOENT]

\* Probe without the test of the logical file itself
ProbeNoLogical(file, s, errno) ==
    LET stripped == Strip(file)
    IN  IF ~Exists(s, stripped \o GZ)
        THEN [ret |-> 0, probes |-> 1, errno |-> ENOENT]
        ELSE IF ~Exists(s, stripped \o GZ \o GZI)
        THEN [ret |-> 0, probes |-> 2, errno |-> ENOENT]
        ELSE [ret |-> 1, probes |-> 2, errno |-> ENOENT]

\* Probe without the test of the index file
ProbeNoIndex(file, s, errno) ==
    LET stripped == Strip(file)
    IN  IF Exists(s, stripped)
        THEN [ret |-> 0, probes |-> 1, errno |-> errno]
        ELSE IF ~Exists(s, stripped \o GZ)
        THEN [ret |-> 0, probes |-> 2, errno |-> ENOENT]
        ELSE [ret |-> 1, probes |-> 2, errno |-> ENOENT]

\* the three fstatat probes: [ret, probes, errno]
Probe(file, s, errno) ==
    LET stripped == Strip(file)
    IN  IF Exists(s, stripped)
        THEN [ret |-> 0, probes |-> 1, errno |-> errno]
        ELSE IF ~Exists(s, stripped \o GZ)
        THEN [ret |-> 0, probes |-> 2, errno |-> ENOENT]
        ELSE IF ~Exists(s, stripped \o GZ \o GZI)
        THEN [ret |-> 0, probes |-> 3, errno |-> ENOENT]
        ELSE [ret |-> 1, probes |-> 3, errno |-> ENOENT]

\* need_bgzip_uncompress without the tdb_fetch: every call probes and stores
NeedNoFetch(file, t, s, errno) ==
    LET p == Probe(file, s, errno)
    IN  [key |-> file, ret |-> p.ret, tdb |-> TdbStore(t, file, p.ret),
         probes |-> p.probes, wrote |-> TRUE, errno |-> p.errno]

\* [key, ret, tdb, probes, wrote, errno]
need_bgzip_uncompress(file, t, s, errno) ==
    IF file \in DOMAIN t
    THEN [key |-> file, ret |-> t[file], tdb |-> t, probes |-> 0,
          wrote |-> FALSE, errno |-> errno]
    ELSE LET p == Probe(file, s, errno)
         IN  [key |-> file, ret |-> p.ret, tdb |-> TdbStore(t, file, p.ret),
              probes |-> p.probes, wrote |-> TRUE, errno |-> p.errno]

\* what a request shows of one call of need_bgzip_uncompress
CallObs(n) ==
    [key |-> n.key, ret |-> n.ret, probes |-> n.probes, wrote |-> n.wrote]

-----------------------------------------------------------------------------
(* The codec (htslib), as far as the handlers use it.  A stream is         *)
(* [pos, idx]: the uncompressed offset of the next byte read, and whether  *)
(* an index has been loaded into it.                                       *)

\* the kinds of content of an index file of the backing store: the index
\* of the container, a file cut after the count, an empty file
IndexKinds == {"good", "cut", "empty"}

\* the words of the index file stored at path p of the backing store
IndexContent(p) ==
    LET w == IndexWords(ContainerLen(p))
    IN  IF index = "good" THEN w
        ELSE IF index = "cut" THEN SubSeq(w, 1, 1)
        ELSE <<>>

\* bgzf_index_load accepts a file of a count n and n + 1 records
WellFormed(w) == Len(w) >= 1 /\ Len(w) = 1 + 2 * (w[1] + 1)

\* bgzf_dopen(fd, "ru") of the file at path p: len is the uncompressed
\* length of the file opened
NewStream(p) == [pos |-> 0, idx |-> FALSE, len |-> ContainerLen(p)]

\* bgzf_useek(fh, off, SEEK_SET): [ret, fh, errno]; needs the index; errno
\* is what the handler finds in errno after the call
bgzf_useek(fh, off, fault) ==
    IF fh.idx /\ off >= 0 /\ off <= fh.len /\ fault # "seek"
    THEN [ret |-> 0, fh |-> [fh EXCEPT !.pos = off], errno |-> 0]
    ELSE [ret |-> -1, fh |-> fh, errno |-> EIO]

\* bgzf_read(fh, buf, size): [ret, fh, errno]
bgzf_read(fh, size, fault) ==
    IF fault = "read"
    THEN [ret |-> -1, fh |-> fh, errno |-> EIO]
    ELSE LET n == IF fh.len - fh.pos < size THEN fh.len - fh.pos ELSE size
         IN  [ret |-> n, fh |-> [fh EXCEPT !.pos = fh.pos + n], errno |-> 0]

-----------------------------------------------------------------------------
(* The cached copy of the index.                                           *)

\* copy_index_file(path): the files of the cache directory afterwards
copy_index_file(path, s, ic, fault) ==
    IF path \notin s THEN ic
    ELSE IF fault = "copy" THEN ic
    ELSE TdbStore(ic, Basename(path), IndexContent(path))

\* load_index_file(fh, path): [idxCache, idx]
load_index_file(path, s, ic, fault) ==
    LET name == Basename(path)
        ic1 == IF name \notin DOMAIN ic
               THEN copy_index_file(path, s, ic, fault) ELSE ic
    IN  [idxCache |-> ic1,
         idx |-> name \in DOMAIN ic1 /\ WellFormed(ic1[name])]

-----------------------------------------------------------------------------
(* get_unzipped_size.                                                      *)

\* a .size file that holds fewer than sizeof(off_t) bytes
Short == 0 - 1

\* read(fd, &start_pos, 8); pread(fd, &start_pos, 8, start_pos * 16):
\* word k of the file starts at byte 8 * k
ReadStartPos(w) ==
    LET count == IF Len(w) >= 1 THEN w[1] ELSE 0
    IN  IF 2 * count + 1 <= Len(w) THEN w[2 * count + 1] ELSE count

\* ScanEOF that takes a failed read for the end of the stream
ScanIgnoreError(fh, pos, fault) ==
    [ok |-> TRUE,
     pos |-> IF fault = "scanread" THEN pos ELSE pos + (fh.len - fh.pos)]

\* the scan for EOF: [ok, pos]
RECURSIVE ScanEOF(_, _, _)
ScanEOF(fh, pos, fault) ==
    LET r == bgzf_read(fh, BufSize, IF fault = "scanread" THEN "read" ELSE "none")
    IN  IF r.ret < 0 THEN [ok |-> FALSE, pos |-> 0]
        ELSE IF r.ret = 0 THEN [ok |-> TRUE, pos |-> pos]
        ELSE ScanEOF(r.fh, pos + r.ret, fault)

\* [ret, sizeCache, idxCache, opened, closed, scanned, start]: opened and
\* closed count the descriptors and streams the call opened and closed
get_unzipped_size(path, s, sc, ic, fault) ==
    LET base == Basename(path)
        res(ret, sc1, ic1, o, c, scanned, start) ==
            [ret |-> ret, sizeCache |-> sc1, idxCache |-> ic1,
             opened |-> o, closed |-> c, scanned |-> scanned, start |-> start]
    IN
    IF base \in DOMAIN sc /\ sc[base] # Short
    THEN res(sc[base], sc, ic, 1, 1, FALSE, 0)
    ELSE
    LET o0 == IF base \in DOMAIN sc THEN 1 ELSE 0
    IN
    IF (path \o GZ) \notin s \/ fault = "gzopen"
    THEN res(0, sc, ic, o0, o0, FALSE, 0)
    ELSE IF fault = "dopen"
    THEN res(0, sc, ic, o0 + 1, o0 + 1, FALSE, 0)
    ELSE
    LET li == load_index_file(path \o GZ \o GZI, s, ic, fault)
        fh0 == [NewStream(path \o GZ) EXCEPT !.idx = li.idx]
        index_file == base \o GZ \o GZI
    IN
    IF index_file \notin DOMAIN li.idxCache
    THEN res(0, sc, li.idxCache, o0 + 1, o0, FALSE, 0)
    ELSE
    LET start_pos == ReadStartPos(li.idxCache[index_file])
        sk == bgzf_useek(fh0, start_pos, "none")
        scan == ScanEOF(sk.fh, start_pos, fault)
    IN
    IF ~scan.ok
    THEN res(0, sc, li.idxCache, o0 + 2, o0 + 2, TRUE, start_pos)
    ELSE IF fault = "cacheopen"
    THEN res(scan.pos, sc, li.idxCache, o0 + 2, o0 + 2, TRUE, start_pos)
    ELSE IF fault = "cachewrite"
    THEN res(scan.pos, TdbStore(sc, base, Short), li.idxCache,
             o0 + 3, o0 + 3, TRUE, start_pos)
    ELSE res(scan.pos, TdbStore(sc, base, scan.pos), li.idxCache,
             o0 + 3, o0 + 3, TRUE, start_pos)

SizeFaults == {"none", "gzopen", "dopen", "copy", "scanread",
               "cacheopen", "cachewrite"}

-----------------------------------------------------------------------------
(* fuse_bgzip_getattr.                                                     *)

\* [ret, st, tdb, sizeCache, idxCache, calls, size]: size is what
\* get_unzipped_size did, or NoSize when it was not called
NoSize == [called |-> FALSE, ret |-> 0, opened |-> 0, closed |-> 0,
           scanned |-> FALSE, start |-> 0]

SizeObs(g) == [called |-> TRUE, ret |-> g.ret, opened |-> g.opened,
               closed |-> g.closed, scanned |-> g.scanned, start |-> g.start]

\* fuse_bgzip_getattr without the assignment to stbuf->st_size
GetattrContainerSize(fpath, s, t, sc, ic, fault) ==
    LET path == SkipSlash(fpath)
        out(ret, st, t1, sc1, ic1, calls, size) ==
            [ret |-> ret, st |-> st, tdb |-> t1, sizeCache |-> sc1,
             idxCache |-> ic1, calls |-> calls, size |-> size]
    IN
    IF Exists(s, path) \/ path = <<>>
    THEN out(0, Meta(path), t, sc, ic, <<>>, NoSize)
    ELSE
    LET n == need_bgzip_uncompress(path, t, s, ENOENT)
    IN
    IF n.ret # 0
    THEN IF ~Exists(s, path \o GZ)
         THEN out(-ENOENT, NoStat, n.tdb, sc, ic, <<CallObs(n)>>, NoSize)
         ELSE LET g == get_unzipped_size(path, s, sc, ic, fault)
              IN  out(0, Meta(path \o GZ), n.tdb,
                      g.sizeCache, g.idxCache, <<CallObs(n)>>, SizeObs(g))
    ELSE out(-n.errno, NoStat, n.tdb, sc, ic, <<CallObs(n)>>, NoSize)

fuse_bgzip_getattr(fpath, s, t, sc, ic, fault) ==
    LET path == SkipSlash(fpath)
        out(ret, st, t1, sc1, ic1, calls, size) ==
            [ret |-> ret, st |-> st, tdb |-> t1, sizeCache |-> sc1,
             idxCache |-> ic1, calls |-> calls, size |-> size]
    IN
    IF Exists(s, path) \/ path = <<>>
    THEN out(0, Meta(path), t, sc, ic, <<>>, NoSize)
    ELSE
    LET n == need_bgzip_uncompress(path, t, s, ENOENT)
    IN
    IF n.ret # 0
    THEN IF ~Exists(s, path \o GZ)
         THEN out(-ENOENT, NoStat, n.tdb, sc, ic, <<CallObs(n)>>, NoSize)
         ELSE LET g == get_unzipped_size(path, s, sc, ic, fault)
              IN  out(0, [Meta(path \o GZ) EXCEPT !.size = g.ret], n.tdb,
                      g.sizeCache, g.idxCache, <<CallObs(n)>>, SizeObs(g))
    ELSE out(-n.errno, NoStat, n.tdb, sc, ic, <<CallObs(n)>>, NoSize)

-----------------------------------------------------------------------------
(* fuse_bgzip_readdir.                                                     *)

\* the names readdir(3) returns for directory D
InDir(D, s, n) ==
    \/ n \in {DOT, DOTDOT}
    \/ n = DirD /\ D = ROOT
    \/ n \in QueryNames /\ PathIn(D, n) \in s

RECURSIVE Reverse(_)
Reverse(q) == IF q = <<>> THEN <<>> ELSE Reverse(Tail(q)) \o <<Head(q)>>

\* the enumerations of D the model draws from
Listings(D, s) ==
    LET Here(n) == InDir(D, s, n)
        fwd == SelectSeq(NameOrder, Here)
    IN  {fwd, Reverse(fwd)}

\* Emit with the continue after the if block missing
EmitNoContinue(d_name, ret) ==
    (IF ret # 0 /\ Len(d_name) > 7 /\ EndsWith(d_name, GZ \o GZI)
     THEN <<DropLast(d_name, 7)>> ELSE <<>>) \o <<d_name>>

\* what the loop body hands to filler for d_name, given the verdict
Emit(d_name, ret) ==
    IF ret # 0
    THEN IF Len(d_name) > 7 /\ EndsWith(d_name, GZ \o GZI)
         THEN <<DropLast(d_name, 7)>> ELSE <<>>
    ELSE <<d_name>>

\* the body of the while loop for the entries ents[i..]: [tdb, emitted, calls]
RECURSIVE ReaddirLoop(_, _, _, _, _)
ReaddirLoop(ents, i, path, s, acc) ==
    IF i > Len(ents) THEN acc
    ELSE
    LET d_name == ents[i]
        full_path == IF path # DOT THEN path \o SLASH \o d_name ELSE d_name
        n == need_bgzip_uncompress(full_path, acc.tdb, s, 0)
        emit == Emit(d_name, n.ret)
    IN  ReaddirLoop(ents, i + 1, path, s,
                    [tdb |-> n.tdb, emitted |-> acc.emitted \o emit,
                     calls |-> Append(acc.calls, CallObs(n))])

\* [ret, tdb, emitted, calls] for the enumeration ents of the directory
fuse_bgzip_readdir(fpath, ents, s, t) ==
    LET p0 == SkipSlash(fpath)
        path == IF p0 = <<>> THEN DOT ELSE p0
    IN  IF path \notin DirPaths
        THEN [ret |-> -EBADF, tdb |-> t, emitted |-> <<>>, calls |-> <<>>]
        ELSE LET r == ReaddirLoop(ents, 1, path, s,
                          [tdb |-> t, emitted |-> <<>>, calls |-> <<>>])
             IN  [ret |-> 0, tdb |-> r.tdb, emitted |-> r.emitted,
                  calls |-> r.calls]

-----------------------------------------------------------------------------
(* struct file, fuse_bgzip_open, fuse_bgzip_read, fuse_bgzip_release.      *)

\* a struct file: fh = NULL is fhSet = FALSE, fd = -1 is fdSet = FALSE;
\* stream is the state of *fh; freed, fhCloses and fdCloses are history
NewFile(path) ==
    [path |-> path, fhSet |-> FALSE, fdSet |-> FALSE,
     stream |-> NewStream(path),
     freed |-> FALSE, fhCloses |-> 0, fdCloses |-> 0]

NoIO == [seeks |-> 0, reads |-> 0, preads |-> 0, seekRet |-> 0,
         readRet |-> 0, opened |-> 0, closed |-> 0, freed |-> 0]

Cap(n) == IF n > 2 THEN 2 ELSE n

\* fuse_bgzip_open that keeps the descriptor of path.gz in file->fd as well
OpenKeepsFd(fpath, s, t, ic, fault) ==
    LET path == SkipSlash(fpath)
        file == NewFile(path)
        out(ret, f, t1, ic1, calls, o, c) ==
            [ret |-> ret, file |-> f, tdb |-> t1, idxCache |-> ic1,
             calls |-> calls,
             io |-> [NoIO EXCEPT !.opened = o, !.closed = c,
                                 !.freed = IF ret = 0 THEN 0 ELSE 1]]
        passthrough(t1, calls) ==
            IF ~Exists(s, path) THEN out(-ENOENT, file, t1, ic, calls, 0, 0)
            ELSE IF fault = "fdopen"
            THEN out(-EACCES, file, t1, ic, calls, 0, 0)
            ELSE out(0, [file EXCEPT !.fdSet = TRUE], t1, ic, calls, 1, 0)
    IN
    IF Exists(s, path) THEN passthrough(t, <<>>)
    ELSE
    LET n == need_bgzip_uncompress(path, t, s, ENOENT)
    IN
    IF n.ret = 0 THEN passthrough(n.tdb, <<CallObs(n)>>)
    ELSE IF (path \o GZ) \notin s \/ fault = "gzopen"
    THEN out(-ENOENT, file, n.tdb, ic, <<CallObs(n)>>, 0, 0)
    ELSE IF fault = "dopen"
    THEN out(-ENOENT, file, n.tdb, ic, <<CallObs(n)>>, 1, 1)
    ELSE LET li == load_index_file(path \o GZ \o GZI, s, ic, fault)
         IN  out(0, [file EXCEPT !.fhSet = TRUE, !.fdSet = TRUE,
                                 !.stream = [NewStream(path \o GZ)
                                                EXCEPT !.idx = li.idx]],
                 n.tdb, li.idxCache, <<CallObs(n)>>, 1, 0)

\* [ret, file, tdb, idxCache, calls, io]: file is the struct file stored in
\* ffi->fh when ret = 0
fuse_bgzip_open(fpath, s, t, ic, fault) ==
    LET path == SkipSlash(fpath)
        file == NewFile(path)
        out(ret, f, t1, ic1, calls, o, c) ==
            [ret |-> ret, file |-> f, tdb |-> t1, idxCache |-> ic1,
             calls |-> calls,
             io |-> [NoIO EXCEPT !.opened = o, !.closed = c,
                                 !.freed = IF ret = 0 THEN 0 ELSE 1]]
        passthrough(t1, calls) ==
            IF ~Exists(s, path) THEN out(-ENOENT, file, t1, ic, calls, 0, 0)
            ELSE IF fault = "fdopen"
            THEN out(-EACCES, file, t1, ic, calls, 0, 0)
            ELSE out(0, [file EXCEPT !.fdSet = TRUE], t1, ic, calls, 1, 0)
    IN
    IF Exists(s, path) THEN passthrough(t, <<>>)
    ELSE
    LET n == need_bgzip_uncompress(path, t, s, ENOENT)
    IN
    IF n.ret = 0 THEN passthrough(n.tdb, <<CallObs(n)>>)
    ELSE IF (path \o GZ) \notin s \/ fault = "gzopen"
    THEN out(-ENOENT, file, n.tdb, ic, <<CallObs(n)>>, 0, 0)
    ELSE IF fault = "dopen"
    THEN out(-ENOENT, file, n.tdb, ic, <<CallObs(n)>>, 1, 1)
    ELSE LET li == load_index_file(path \o GZ \o GZI, s, ic, fault)
         IN  out(0, [file EXCEPT !.fhSet = TRUE,
                                 !.stream = [NewStream(path \o GZ)
                                                EXCEPT !.idx = li.idx]],
                 n.tdb, li.idxCache, <<CallObs(n)>>, 1, 0)

OpenFaults == {"none", "gzopen", "dopen", "copy", "fdopen"}

\* fuse_bgzip_read without the return after a failed bgzf_useek
ReadIgnoreSeek(file, size, offset, fault) ==
    IF file.fhSet
    THEN LET sk == bgzf_useek(file.stream, offset, fault)
             r == bgzf_read(sk.fh, size, fault)
         IN  [ret |-> IF r.ret = -1 THEN -r.errno ELSE r.ret,
              file |-> [file EXCEPT !.stream = r.fh],
              io |-> [NoIO EXCEPT !.seeks = 1, !.seekRet = sk.ret,
                                  !.reads = 1, !.readRet = r.ret]]
    ELSE LET left == PhysSize(file.path) - offset
             n == IF left < 0 THEN 0 ELSE IF left < size THEN left ELSE size
             got == IF fault = "read" THEN -1 ELSE n
         IN  [ret |-> IF got = -1 THEN -EIO ELSE got, file |-> file,
              io |-> [NoIO EXCEPT !.preads = 1, !.readRet = got]]

\* [ret, file, io] for the struct file in ffi->fh
fuse_bgzip_read(file, size, offset, fault) ==
    IF file.fhSet
    THEN LET sk == bgzf_useek(file.stream, offset, fault)
         IN  IF sk.ret = -1
             THEN [ret |-> -sk.errno, file |-> [file EXCEPT !.stream = sk.fh],
                   io |-> [NoIO EXCEPT !.seeks = 1, !.seekRet = sk.ret]]
             ELSE LET r == bgzf_read(sk.fh, size, fault)
                  IN  [ret |-> IF r.ret = -1 THEN -r.errno ELSE r.ret,
                       file |-> [file EXCEPT !.stream = r.fh],
                       io |-> [NoIO EXCEPT !.seeks = 1, !.reads = 1,
                                           !.readRet = r.ret]]
    ELSE LET left == PhysSize(file.path) - offset
             n == IF left < 0 THEN 0 ELSE IF left < size THEN left ELSE size
             got == IF fault = "read" THEN -1 ELSE n
         IN  [ret |-> IF got = -1 THEN -EIO ELSE got, file |-> file,
              io |-> [NoIO EXCEPT !.preads = 1, !.readRet = got]]

ReadFaults == {"none", "seek", "read"}

\* the struct file after release; mem is what the fields read as: the struct
\* itself while it is allocated, anything once it has been freed
ReleaseFile(file, mem) ==
    [file EXCEPT !.freed = TRUE,
                 !.fhCloses = Cap(@ + IF mem.fhSet THEN 1 ELSE 0),
                 !.fdCloses = Cap(@ + IF mem.fdSet THEN 1 ELSE 0)]

\* what the fields of a struct file read as
Reads(file) ==
    IF ~file.freed THEN {file}
    ELSE {file, [file EXCEPT !.fhSet = FALSE, !.fdSet = FALSE]}

-----------------------------------------------------------------------------
(* The state machine: one action per request of the protocol bridge, and   *)
(* one for a change of the backing store made behind the mount.            *)

NoCall ==
    [op |-> "none", path |-> <<>>, ret |-> 0, st |-> NoStat,
     emitted |-> <<>>, calls |-> <<>>, size |-> NoSize, io |-> NoIO,
     h |-> 0, size_arg |-> 0, offset |-> 0, fault |-> "none"]

\* the calls of need_bgzip_uncompress of one request, each marked with
\* whether its path had been queried before
RECURSIVE MarkCalls(_, _)
MarkCalls(calls, hs) ==
    IF calls = <<>> THEN <<>>
    ELSE LET c == Head(calls)
         IN  <<[key |-> c.key, ret |-> c.ret, probes |-> c.probes,
                wrote |-> c.wrote, again |-> c.key \in DOMAIN hs]>>
             \o MarkCalls(Tail(calls), hs)

RECURSIVE HistAfter(_, _)
HistAfter(hs, calls) ==
    IF calls = <<>> THEN hs
    ELSE LET c == Head(calls)
             w == IF c.wrote THEN 1 ELSE 0
             e == IF c.key \in DOMAIN hs
                  THEN [hs[c.key] EXCEPT !.writes = Cap(@ + w)]
                  ELSE [first |-> c.ret, writes |-> w]
         IN  HistAfter(TdbStore(hs, c.key, e), Tail(calls))

\* no request is in progress
Workers == {1, 2}

\* a request and where its handler stands: pc is "idle", "seeked" (a read
\* between bgzf_useek and bgzf_read), "copying" (a getattr between two
\* writes of copy_index_file) or "done"; at is the stream offset the bytes
\* returned were read at; ret and size are what the handler returned
NoRequest == [pc |-> "idle", op |-> "none", path |-> <<>>, h |-> 0,
              offset |-> 0, at |-> 0, ret |-> 0, size |-> 0]

Idle == [w \in Workers |-> NoRequest]

\* main has reached fuse_main
Mounted == [pc |-> "mounted", args |-> {"m"}, fault |-> "none", status |-> 0]

InitWith(names) ==
    /\ dir \in Dirs
    /\ store \in SUBSET { PathIn(dir, n) : n \in names }
    /\ changed = FALSE
    /\ tdb = <<>>
    /\ hist = <<>>
    /\ sizeCache = <<>>
    /\ idxCache = <<>>
    /\ handles = <<>>
    /\ badClose = FALSE
    /\ badFree = FALSE
    /\ last = NoCall
    /\ container = [len |-> ULen, stale |-> FALSE, other |-> ULen]
    /\ index = "good"
    /\ inflight = Idle
    /\ proc = Mounted

\* the mount of a store that holds any of a file, its container, its index
Init == InitWith(CoreNames)

\* the mount of a store that holds any of the names
InitWide == InitWith(Names)

Getattr(n, fault) ==
    /\ \E r \in {fuse_bgzip_getattr(FusePath(PathIn(dir, n)), store, tdb,
                                   sizeCache, idxCache, fault)} :
           /\ fault = "none" \/ r.size.called
           /\ tdb' = r.tdb
           /\ hist' = HistAfter(hist, r.calls)
           /\ sizeCache' = r.sizeCache
           /\ idxCache' = r.idxCache
           /\ last' = [NoCall EXCEPT !.op = "getattr", !.path = PathIn(dir, n),
                          !.ret = r.ret, !.st = r.st,
                          !.calls = MarkCalls(r.calls, hist), !.size = r.size,
                          !.fault = fault]
    /\ UNCHANGED <<dir, store, changed, handles, badClose, badFree>>
    /\ UNCHANGED env

Readdir(p) ==
    /\ \E ents \in Listings(p, store) :
         \E r \in {fuse_bgzip_readdir(FusePath(p), ents, store, tdb)} :
             /\ tdb' = r.tdb
             /\ hist' = HistAfter(hist, r.calls)
             /\ last' = [NoCall EXCEPT !.op = "readdir", !.path = p,
                            !.ret = r.ret, !.emitted = r.emitted,
                            !.calls = MarkCalls(r.calls, hist)]
    /\ UNCHANGED <<dir, store, changed, sizeCache, idxCache, handles,
                   badClose, badFree>>
    /\ UNCHANGED env

Open(n, fault) ==
    /\ Len(handles) < MaxHandles
    /\ \E r \in {fuse_bgzip_open(FusePath(PathIn(dir, n)), store, tdb,
                                idxCache, fault)} :
           /\ tdb' = r.tdb
           /\ hist' = HistAfter(hist, r.calls)
           /\ idxCache' = r.idxCache
           /\ handles' = IF r.ret = 0 THEN Append(handles, r.file)
                         ELSE handles
           /\ last' = [NoCall EXCEPT !.op = "open", !.path = PathIn(dir, n),
                          !.ret = r.ret, !.calls = MarkCalls(r.calls, hist),
                          !.io = r.io, !.fault = fault,
                          !.h = IF r.ret = 0 THEN Len(handles) + 1 ELSE 0]
    /\ UNCHANGED <<dir, store, changed, sizeCache, badClose, badFree>>
    /\ UNCHANGED env

Read(h, size, offset, fault) ==
    /\ h \in DOMAIN handles
    /\ ~handles[h].freed
    /\ \E r \in {fuse_bgzip_read(handles[h], size, offset, fault)} :
           /\ handles' = [handles EXCEPT ![h] = r.file]
           /\ last' = [NoCall EXCEPT !.op = "read", !.path = handles[h].path,
                          !.ret = r.ret, !.io = r.io, !.h = h,
                          !.size_arg = size, !.offset = offset,
                          !.fault = fault]
    /\ UNCHANGED <<dir, store, changed, tdb, hist, sizeCache, idxCache,
                   badClose, badFree>>
    /\ UNCHANGED env

Release(h) ==
    /\ h \in 0..Len(handles)
    /\ IF h = 0
       THEN /\ last' = [NoCall EXCEPT !.op = "release"]
            /\ UNCHANGED <<handles, badClose, badFree>>
       ELSE \E mem \in Reads(handles[h]) :
              LET f == ReleaseFile(handles[h], mem)
              IN  /\ handles' = [handles EXCEPT ![h] = f]
                  /\ badClose' = (badClose \/ f.fhCloses > 1 \/ f.fdCloses > 1)
                  /\ badFree' = (badFree \/ handles[h].freed)
                  /\ last' = [NoCall EXCEPT !.op = "release",
                                 !.path = handles[h].path, !.h = h,
                                 !.io = [NoIO EXCEPT
                                     !.closed = (IF mem.fhSet THEN 1 ELSE 0)
                                              + (IF mem.fdSet THEN 1 ELSE 0),
                                     !.freed = 1]]
    /\ UNCHANGED <<dir, store, changed, tdb, hist, sizeCache, idxCache>>
    /\ UNCHANGED env

\* a file of the backing store is created or removed behind the mount
StoreChange(n) ==
    /\ LET p == PathIn(dir, n)
       IN  store' = IF p \in store THEN store \ {p} ELSE store \cup {p}
    /\ changed' = TRUE
    /\ last' = NoCall
    /\ UNCHANGED <<dir, tdb, hist, sizeCache, idxCache, handles, badClose,
                   badFree>>
    /\ UNCHANGED env

Offsets == 0..(ULen + 1)

\* the uncompressed length of the file that replaces a container
AltLen == ULen + 1

\* the container of a is replaced, with its index, by one of another size
Replace ==
    /\ PathIn(dir, A \o GZ) \in store
    /\ container' =
          [container EXCEPT
              !.len = IF container.len = ULen THEN AltLen ELSE ULen,
              !.stale = \/ container.stale
                        \/ A \in DOMAIN sizeCache /\ sizeCache[A] # Short]
    /\ changed' = TRUE
    /\ last' = NoCall
    /\ UNCHANGED <<dir, store, tdb, hist, sizeCache, idxCache, handles,
                   badClose, badFree, index, inflight, proc>>

\* attribute lookups, listings and opens, on a store that changes
NextMeta ==
    \/ \E n \in CoreNames, fault \in SizeFaults : Getattr(n, fault)
    \/ \E p \in {dir, PathIn(dir, A)} : Readdir(p)
    \/ \E n \in CoreNames, fault \in OpenFaults : Open(n, fault)
    \/ \E n \in CoreNames : StoreChange(n)

SpecMeta == Init /\ [][NextMeta]_vars

\* open, read and release, on a store whose container comes and goes
NextFile ==
    \/ \E n \in CoreNames, fault \in OpenFaults : Open(n, fault)
    \/ \E h \in DOMAIN handles, offset \in Offsets, fault \in ReadFaults :
          Read(h, BufSize, offset, fault)
    \/ \E h \in 0..Len(handles) : Release(h)
    \/ StoreChange(A \o GZ)

SpecFile == Init /\ [][NextFile]_vars

\* attribute lookups and listings of every store of Names, unchanging
NextWide ==
    \/ \E n \in QueryNames, fault \in SizeFaults : Getattr(n, fault)
    \/ \E p \in {dir, PathIn(dir, A)} : Readdir(p)

SpecWide == InitWide /\ [][NextWide]_vars

\* the handler of worker v has been entered and has not returned
Busy(v) == inflight[v].pc \in {"seeked", "copying"}

\* a bridge whose threads run the handlers with no exclusion
MultiThreaded(w) == w \in Workers

\* a bridge that excludes only the reads from one another
ReadsExcluded(w) == \A v \in Workers \ {w} : inflight[v].pc # "seeked"

\* "-s": the bridge runs one handler at a time, to completion
SingleThreaded(w) == \A v \in Workers \ {w} : ~Busy(v)

\* the offsets of the reads that run side by side
ConcOffsets == {0, BlockLen}

\* fuse_bgzip_read on a handle with a stream, as far as the return of
\* bgzf_useek
ReadSeek(w, h, offset) ==
    /\ ~Busy(w)
    /\ SingleThreaded(w)
    /\ h \in DOMAIN handles
    /\ ~handles[h].freed
    /\ handles[h].fhSet
    /\ LET sk == bgzf_useek(handles[h].stream, offset, "none")
           rq == [NoRequest EXCEPT !.op = "read", !.path = handles[h].path,
                                   !.h = h, !.offset = offset]
       IN  IF sk.ret = -1
           THEN /\ inflight' = [inflight EXCEPT ![w] =
                        [rq EXCEPT !.pc = "done", !.ret = -sk.errno]]
                /\ last' = [NoCall EXCEPT !.op = "read",
                               !.path = handles[h].path, !.ret = -sk.errno,
                               !.io = [NoIO EXCEPT !.seeks = 1,
                                                   !.seekRet = sk.ret],
                               !.h = h, !.size_arg = BufSize,
                               !.offset = offset]
                /\ UNCHANGED handles
           ELSE /\ inflight' = [inflight EXCEPT ![w] =
                        [rq EXCEPT !.pc = "seeked"]]
                /\ handles' = [handles EXCEPT ![h].stream = sk.fh]
                /\ UNCHANGED last
    /\ UNCHANGED <<dir, store, changed, tdb, hist, sizeCache, idxCache,
                   badClose, badFree, container, index, proc>>

\* fuse_bgzip_read from the return of bgzf_useek on
ReadRead(w) ==
    /\ inflight[w].pc = "seeked"
    /\ LET h == inflight[w].h
           r == bgzf_read(handles[h].stream, BufSize, "none")
       IN  /\ handles' = [handles EXCEPT ![h].stream = r.fh]
           /\ inflight' = [inflight EXCEPT ![w] =
                   [@ EXCEPT !.pc = "done", !.at = handles[h].stream.pos,
                             !.ret = r.ret]]
           /\ last' = [NoCall EXCEPT !.op = "read", !.path = handles[h].path,
                          !.ret = r.ret,
                          !.io = [NoIO EXCEPT !.seeks = 1, !.reads = 1,
                                              !.readRet = r.ret],
                          !.h = h, !.size_arg = BufSize,
                          !.offset = inflight[w].offset]
    /\ UNCHANGED <<dir, store, changed, tdb, hist, sizeCache, idxCache,
                   badClose, badFree, container, index, proc>>

\* getattr(path) gets as far as copy_index_file: path is absent, the
\* verdict is true, no size is cached, the container opens and its index,
\* not yet in the cache directory, is there to be copied
CopyPending(path) ==
    /\ ~Exists(store, path)
    /\ need_bgzip_uncompress(path, tdb, store, ENOENT).ret # 0
    /\ ~(Basename(path) \in DOMAIN sizeCache
           /\ sizeCache[Basename(path)] # Short)
    /\ (path \o GZ) \in store
    /\ (Basename(path) \o GZ \o GZI) \notin DOMAIN idxCache
    /\ (path \o GZ \o GZI) \in store

\* what copy_index_file has written after its first write
FirstWrite(w) == IF w = <<>> THEN <<>> ELSE SubSeq(w, 1, 1)

\* get_unzipped_size from bgzf_index_load on, with no failure: [ret,
\* sizeCache]
SizeAfterCopy(path, sc, ic) ==
    LET index_file == Basename(path) \o GZ \o GZI
        fh0 == [NewStream(path \o GZ)
                   EXCEPT !.idx = WellFormed(ic[index_file])]
        start_pos == ReadStartPos(ic[index_file])
        sk == bgzf_useek(fh0, start_pos, "none")
        scan == ScanEOF(sk.fh, start_pos, "none")
    IN  [ret |-> scan.pos,
         sizeCache |-> TdbStore(sc, Basename(path), scan.pos)]

\* fuse_bgzip_getattr as far as the first write of copy_index_file
GetattrEnter(w, n) ==
    /\ ~Busy(w)
    /\ SingleThreaded(w)
    /\ CopyPending(PathIn(dir, n))
    /\ LET path == PathIn(dir, n)
           v == need_bgzip_uncompress(path, tdb, store, ENOENT)
       IN  /\ tdb' = v.tdb
           /\ hist' = HistAfter(hist, <<CallObs(v)>>)
           /\ idxCache' = TdbStore(idxCache, Basename(path) \o GZ \o GZI,
                                   FirstWrite(IndexContent(path \o GZ \o GZI)))
           /\ inflight' = [inflight EXCEPT ![w] =
                   [NoRequest EXCEPT !.pc = "copying", !.op = "getattr",
                                     !.path = path]]
    /\ UNCHANGED <<dir, store, changed, sizeCache, handles, badClose,
                   badFree, last, container, index, proc>>

\* fuse_bgzip_getattr from the first write of copy_index_file on
GetattrLeave(w) ==
    /\ inflight[w].pc = "copying"
    /\ LET path == inflight[w].path
           ic == TdbStore(idxCache, Basename(path) \o GZ \o GZI,
                          IndexContent(path \o GZ \o GZI))
           g == SizeAfterCopy(path, sizeCache, ic)
       IN  /\ idxCache' = ic
           /\ sizeCache' = g.sizeCache
           /\ inflight' = [inflight EXCEPT ![w] =
                   [@ EXCEPT !.pc = "done", !.ret = 0, !.size = g.ret]]
           /\ last' = [NoCall EXCEPT !.op = "getattr", !.path = path,
                          !.st = [Meta(path \o GZ) EXCEPT !.size = g.ret]]
    /\ UNCHANGED <<dir, store, changed, tdb, hist, handles, badClose,
                   badFree, container, index, proc>>

\* fuse_bgzip_getattr in one piece, when it copies no index
GetattrServe(w, n) ==
    /\ ~Busy(w)
    /\ SingleThreaded(w)
    /\ ~CopyPending(PathIn(dir, n))
    /\ \E r \in {fuse_bgzip_getattr(FusePath(PathIn(dir, n)), store, tdb,
                                   sizeCache, idxCache, "none")} :
           /\ tdb' = r.tdb
           /\ hist' = HistAfter(hist, r.calls)
           /\ sizeCache' = r.sizeCache
           /\ idxCache' = r.idxCache
           /\ inflight' = [inflight EXCEPT ![w] =
                   [NoRequest EXCEPT !.pc = "done", !.op = "getattr",
                                     !.path = PathIn(dir, n), !.ret = r.ret,
                                     !.size = r.st.size]]
           /\ last' = [NoCall EXCEPT !.op = "getattr", !.path = PathIn(dir, n),
                          !.ret = r.ret, !.st = r.st,
                          !.calls = MarkCalls(r.calls, hist), !.size = r.size]
    /\ UNCHANGED <<dir, store, changed, handles, badClose, badFree,
                   container, index, proc>>

\* fuse_bgzip_open in one piece
OpenServe(w, n) ==
    /\ ~Busy(w)
    /\ SingleThreaded(w)
    /\ Open(n, "none")

\* the mount of a store whose index files hold any kind of content
InitConc ==
    /\ dir \in Dirs
    /\ store \in SUBSET { PathIn(dir, n) : n \in CoreNames }
    /\ index \in IndexKinds
    /\ changed = FALSE
    /\ tdb = <<>>
    /\ hist = <<>>
    /\ sizeCache = <<>>
    /\ idxCache = <<>>
    /\ handles = <<>>
    /\ badClose = FALSE
    /\ badFree = FALSE
    /\ last = NoCall
    /\ container = [len |-> ULen, stale |-> FALSE, other |-> ULen]
    /\ inflight = Idle
    /\ proc = Mounted

\* reads and attribute lookups of two callers, run by the bridge
NextConc ==
    \/ \E w \in Workers : OpenServe(w, A)
    \/ \E w \in Workers, h \in DOMAIN handles, offset \in ConcOffsets :
          ReadSeek(w, h, offset)
    \/ \E w \in Workers : ReadRead(w)
    \/ \E w \in Workers : GetattrEnter(w, A)
    \/ \E w \in Workers : GetattrLeave(w)
    \/ \E w \in Workers : GetattrServe(w, A)

SpecConc == InitConc /\ [][NextConc]_vars

InitSize == InitConc

\* a file, its container and index, and a file named as an index is
ListNames == CoreNames \cup { A \o GZI }

\* the mount of a store that holds any of them
InitList == InitWith(ListNames)

\* listings and attribute lookups
NextList ==
    \/ \E p \in {dir, PathIn(dir, A)} : Readdir(p)
    \/ \E n \in ListNames : Getattr(n, "none")

SpecList == InitList /\ [][NextList]_vars

\* the options of the command line
MainOptions == {"h", "a", "f", "l", "m"}

\* what may fail during startup
MainFaults == {"none", "mkdir", "tdb"}

\* print_usage: prints and calls exit(0)
print_usage == [pc |-> "exited", status |-> 0]

\* snprintf(fs_name, ..., "-ofsname=%s", mnt) with mnt == NULL is undefined:
\* it prints "(null)" and main goes on, or the process is killed
FsNameOfNull == {"goes on", "killed"}

\* main: [pc, status] for the options given, with no option twice
main(args, fault, null) ==
    IF "h" \in args THEN print_usage
    ELSE IF "m" \notin args /\ null = "killed"
    THEN [pc |-> "killed", status |-> 139]
    ELSE IF "m" \notin args THEN print_usage
    ELSE IF fault = "mkdir" THEN [pc |-> "exited", status |-> 1]
    ELSE IF fault = "tdb" THEN [pc |-> "exited", status |-> 1]
    ELSE [pc |-> "mounted", status |-> 0]

\* the process has been started and main has not run
InitMain ==
    /\ dir \in Dirs
    /\ store \in SUBSET { PathIn(dir, n) : n \in CoreNames }
    /\ proc \in [pc : {"start"}, args : SUBSET MainOptions,
                  fault : MainFaults, status : {0}]
    /\ index = "good"
    /\ changed = FALSE
    /\ tdb = <<>>
    /\ hist = <<>>
    /\ sizeCache = <<>>
    /\ idxCache = <<>>
    /\ handles = <<>>
    /\ badClose = FALSE
    /\ badFree = FALSE
    /\ last = NoCall
    /\ container = [len |-> ULen, stale |-> FALSE, other |-> ULen]
    /\ inflight = Idle

Main ==
    /\ proc.pc = "start"
    /\ \E null \in FsNameOfNull :
          \E r \in {main(proc.args, proc.fault, null)} :
              proc' = [proc EXCEPT !.pc = r.pc, !.status = r.status]
    /\ UNCHANGED <<dir, store, changed, tdb, hist, sizeCache, idxCache,
                   handles, badClose, badFree, last, container, index,
                   inflight>>

\* the main loop of the filesystem serves a request
Serve ==
    /\ proc.pc = "mounted"
    /\ \/ \E n \in CoreNames : Getattr(n, "none")
       \/ Readdir(dir)

\* startup, then requests
NextMain ==
    \/ Main
    \/ Serve

SpecMain == InitMain /\ [][NextMain]_vars

\* attribute lookups, on containers that are replaced
NextSize ==
    \/ \E n \in CoreNames, fault \in SizeFaults : Getattr(n, fault)
    \/ Replace

SpecSize == InitSize /\ [][NextSize]_vars

\* the paths of a file, its container and its index in both directories
TwoPaths == { PathIn(D, n) : D \in Dirs, n \in CoreNames }

\* the uncompressed length of a container that holds one block more
LongLen == ULen + BlockLen

\* the failures of a request in the two directories
TwoFaults == {"none", "copy"}

\* the mount of a store that holds the same names in both directories; the
\* containers of the other directory are longer and so are their indexes
InitTwo ==
    /\ dir \in Dirs
    /\ store \in SUBSET TwoPaths
    /\ container = [len |-> ULen, stale |-> FALSE, other |-> LongLen]
    /\ index = "good"
    /\ changed = FALSE
    /\ tdb = <<>>
    /\ hist = <<>>
    /\ sizeCache = <<>>
    /\ idxCache = <<>>
    /\ handles = <<>>
    /\ badClose = FALSE
    /\ badFree = FALSE
    /\ last = NoCall
    /\ inflight = Idle
    /\ proc = Mounted

\* getattr of name n of directory D
GetattrAt(D, n, fault) ==
    /\ \E r \in {fuse_bgzip_getattr(FusePath(PathIn(D, n)), store, tdb,
                                   sizeCache, idxCache, fault)} :
           /\ fault = "none" \/ r.size.called
           /\ tdb' = r.tdb
           /\ hist' = HistAfter(hist, r.calls)
           /\ sizeCache' = r.sizeCache
           /\ idxCache' = r.idxCache
           /\ last' = [NoCall EXCEPT !.op = "getattr", !.path = PathIn(D, n),
                          !.ret = r.ret, !.st = r.st,
                          !.calls = MarkCalls(r.calls, hist), !.size = r.size,
                          !.fault = fault]
    /\ UNCHANGED <<dir, store, changed, handles, badClose, badFree>>
    /\ UNCHANGED env

\* open of name n of directory D
OpenAt(D, n, fault) ==
    /\ Len(handles) < MaxHandles
    /\ \E r \in {fuse_bgzip_open(FusePath(PathIn(D, n)), store, tdb,
                                idxCache, fault)} :
           /\ tdb' = r.tdb
           /\ hist' = HistAfter(hist, r.calls)
           /\ idxCache' = r.idxCache
           /\ handles' = IF r.ret = 0 THEN Append(handles, r.file)
                         ELSE handles
           /\ last' = [NoCall EXCEPT !.op = "open", !.path = PathIn(D, n),
                          !.ret = r.ret, !.calls = MarkCalls(r.calls, hist),
                          !.io = r.io, !.fault = fault,
                          !.h = IF r.ret = 0 THEN Len(handles) + 1 ELSE 0]
    /\ UNCHANGED <<dir, store, changed, sizeCache, badClose, badFree>>
    /\ UNCHANGED env

\* attribute lookups and opens in two directories, on an unchanging store
NextTwo ==
    \/ \E D \in Dirs, n \in CoreNames, fault \in TwoFaults :
          GetattrAt(D, n, fault)
    \/ \E D \in Dirs, n \in CoreNames, fault \in TwoFaults :
          OpenAt(D, n, fault)

SpecTwo == InitTwo /\ [][NextTwo]_vars

-----------------------------------------------------------------------------
(* Properties.  They speak of the request served last: a change of the     *)
(* backing store clears the observation, so the store of the state is the  *)
(* store the request saw.                                                   *)

Count(q, x) == Cardinality({i \in DOMAIN q : q[i] = x})

\* the logical file P of directory D is absent, its container and index exist
SynthIn(D, P) ==
    /\ ~Exists(store, PathIn(D, P))
    /\ Exists(store, PathIn(D, P \o GZ))
    /\ Exists(store, PathIn(D, P \o GZ \o GZI))

Suffixed(p) == EndsWith(p, GZ) \/ EndsWith(p, GZI)

Listed == last.op = "readdir" /\ last.ret = 0

\* C1 as stated: a listing of D emits P exactly once, and neither P.gz nor
\* P.gz.gzi, for every P absent from D whose container and index are in D,
\* whatever was queried before
C1_Original ==
    Listed =>
        \A P \in QueryNames :
            SynthIn(last.path, P) =>
                /\ Count(last.emitted, P) = 1
                /\ Count(last.emitted, P \o GZ) = 0
                /\ Count(last.emitted, P \o GZ \o GZI) = 0

\* C1 amended: on a backing store that has not changed since the mount, a
\* listing of D emits P exactly once, and neither P.gz nor P.gz.gzi, for
\* every P absent from D whose container and index are in D, in either
\* enumeration order and whatever was queried before
C1_Listing == ~changed => C1_Original

\* C1: a listing, of an unchanged store, that used a cached verdict and
\* shows a in place of a.gz and a.gz.gzi
C1_Witness ==
    /\ Listed
    /\ ~changed
    /\ SynthIn(last.path, A)
    /\ \E i \in DOMAIN last.calls : last.calls[i].again
    /\ Count(last.emitted, A) = 1

\* the verdict of call c answers a first query of a path that is absent
\* while path.gz and path.gz.gzi exist
FirstOfPair(c) ==
    /\ ~c.again
    /\ ~Exists(store, c.key)
    /\ Exists(store, c.key \o GZ)
    /\ Exists(store, c.key \o GZ \o GZI)

\* C2 as stated: for every path string P, a first query of P, absent while
\* P.gz and P.gz.gzi exist, returns true
C2_Original ==
    \A i \in DOMAIN last.calls :
        FirstOfPair(last.calls[i]) => last.calls[i].ret = 1

\* the name S left of the path of call c by the removal of at most one
\* trailing ".gzi" and then at most one trailing ".gz" is absent while S.gz
\* and S.gz.gzi exist
StrippedPair(c) ==
    /\ ~Exists(store, Strip(c.key))
    /\ Exists(store, Strip(c.key) \o GZ)
    /\ Exists(store, Strip(c.key) \o GZ \o GZI)

\* C2 amended: for every path string P that does not end in ".gz" or
\* ".gzi", a first query of P, absent while P.gz and P.gz.gzi exist,
\* returns true; for every P, the verdict of a first query is true exactly
\* when the stripped name S is absent while S.gz and S.gz.gzi exist
C2_Verdict ==
    \A i \in DOMAIN last.calls :
        /\ (FirstOfPair(last.calls[i]) /\ ~Suffixed(last.calls[i].key))
               => last.calls[i].ret = 1
        /\ ~last.calls[i].again
               => (last.calls[i].ret = 1 <=> StrippedPair(last.calls[i]))

\* C2: a first query of a, absent while a.gz and a.gz.gzi exist, has
\* returned true
C2_Witness ==
    /\ last.op = "getattr"
    /\ last.path = PathIn(dir, A)
    /\ SynthIn(dir, A)
    /\ last.calls # <<>>
    /\ ~last.calls[1].again
    /\ last.calls[1].ret = 1

\* P, P.gz and P.gz.gzi all exist in D
AllThree(D, P) ==
    /\ PathIn(D, P) \in store
    /\ PathIn(D, P \o GZ) \in store
    /\ PathIn(D, P \o GZ \o GZI) \in store

\* every verdict of the request for P, P.gz or P.gz.gzi of D is false, and
\* a listing of D emits the three names
ThreeShown(D, P) ==
    /\ \A i \in DOMAIN last.calls :
          last.calls[i].key \in { PathIn(D, P), PathIn(D, P \o GZ),
                                  PathIn(D, P \o GZ \o GZI) }
              => last.calls[i].ret = 0
    /\ (Listed /\ last.path = D) =>
          /\ Count(last.emitted, P) >= 1
          /\ Count(last.emitted, P \o GZ) >= 1
          /\ Count(last.emitted, P \o GZ \o GZI) >= 1

\* C3 as stated: for every path P such that P, P.gz and P.gz.gzi exist, the
\* verdict is false for the three and a listing emits the three raw names
C3_Original ==
    \A P \in QueryNames : AllThree(dir, P) => ThreeShown(dir, P)

\* C3 amended: on a backing store that has not changed since the mount, for
\* every path P that does not end in ".gz" or ".gzi" and such that P, P.gz
\* and P.gz.gzi exist, the verdict is false for the three and a listing
\* emits the three raw names
C3_AllThree ==
    ~changed =>
        \A P \in QueryNames :
            (AllThree(dir, P) /\ ~Suffixed(P)) => ThreeShown(dir, P)

\* C3: a listing of a directory that holds a, a.gz and a.gz.gzi has emitted
\* the three names
C3_Witness ==
    /\ Listed
    /\ last.path = dir
    /\ AllThree(dir, A)
    /\ Count(last.emitted, A) = 1
    /\ Count(last.emitted, A \o GZ) = 1
    /\ Count(last.emitted, A \o GZ \o GZI) = 1

\* the attribute lookup served last was for a path that is absent, whose
\* container exists and whose index does not
LookupWithoutIndex ==
    /\ last.op = "getattr"
    /\ ~Exists(store, last.path)
    /\ Exists(store, last.path \o GZ)
    /\ ~Exists(store, last.path \o GZ \o GZI)

\* C4 as stated: for every path P, absent while P.gz exists and P.gz.gzi does
\* not, the verdict is false and getattr(P) fails with -ENOENT
C4_Original ==
    LookupWithoutIndex =>
        /\ last.calls # <<>>
        /\ last.calls[1].ret = 0
        /\ last.ret = -ENOENT

\* C4 amended: on a backing store that has not changed since the mount, for
\* every path P that does not end in ".gzi", absent while P.gz exists and
\* P.gz.gzi does not, the verdict is false and getattr(P) fails with -ENOENT
C4_NoIndex ==
    (~changed /\ ~EndsWith(last.path, GZI)) => C4_Original

\* C4: getattr(a) has failed with -ENOENT where a.gz exists without a.gz.gzi
C4_Witness ==
    /\ LookupWithoutIndex
    /\ last.path = PathIn(dir, A)
    /\ last.ret = -ENOENT

\* C5: the verdict of a path is memoized for good: every call returns the
\* verdict of the first call for its path, a call for a path queried before
\* makes no probe of the backing store and no write to the decision cache,
\* and every path ever queried has been written exactly once, under the
\* path as it was passed
C5_Memo ==
    /\ \A i \in DOMAIN last.calls :
          /\ last.calls[i].key \in DOMAIN hist
          /\ last.calls[i].ret = hist[last.calls[i].key].first
          /\ last.calls[i].again =>
                last.calls[i].probes = 0 /\ ~last.calls[i].wrote
          /\ ~last.calls[i].again =>
                last.calls[i].probes > 0 /\ last.calls[i].wrote
    /\ DOMAIN tdb = DOMAIN hist
    /\ \A k \in DOMAIN hist : hist[k].writes = 1 /\ tdb[k] = hist[k].first
    /\ (last.op \in {"getattr", "open"} /\ last.calls # <<>>) =>
          last.calls[1].key = last.path

\* C5: after a change of the backing store, a path queried before has been
\* queried again and the verdict returned differs from what the probes of
\* the store would answer now
C5_Witness ==
    /\ changed
    /\ \E i \in DOMAIN last.calls :
          /\ last.calls[i].again
          /\ last.calls[i].ret # Probe(last.calls[i].key, store, 0).ret

\* C6: getattr of a path that exists returns its metadata unchanged, with no
\* size resolution; getattr of an absent path for which the verdict is true
\* returns the metadata of path.gz with only the size replaced by the result
\* of get_unzipped_size, and when path.gz cannot be stat-ed it returns that
\* error and starts no size resolution
C6_Getattr ==
    last.op = "getattr" =>
        /\ Exists(store, last.path) =>
              /\ last.ret = 0
              /\ last.st = Meta(last.path)
              /\ last.calls = <<>>
              /\ ~last.size.called
        /\ (~Exists(store, last.path) /\ last.calls[1].ret # 0) =>
              IF Exists(store, last.path \o GZ)
              THEN /\ last.ret = 0
                   /\ last.size.called
                   /\ last.st = [Meta(last.path \o GZ)
                                    EXCEPT !.size = last.size.ret]
              ELSE /\ last.ret = -ENOENT
                   /\ ~last.size.called
                   /\ last.st = NoStat

\* C6: getattr of the absent a has returned the metadata of a.gz with the
\* uncompressed length as the size
C6_Witness ==
    /\ last.op = "getattr"
    /\ last.path = PathIn(dir, A)
    /\ ~Exists(store, last.path)
    /\ last.ret = 0
    /\ last.size.called
    /\ last.st.file = last.path \o GZ
    /\ last.st.size = ULen
    /\ last.st.size # PhysSize(last.path \o GZ)

\* C6: getattr of an absent path with a true verdict has failed on the stat
\* of path.gz
C6_StatFails ==
    /\ last.op = "getattr"
    /\ ~Exists(store, last.path)
    /\ last.calls # <<>>
    /\ last.calls[1].ret # 0
    /\ ~Exists(store, last.path \o GZ)
    /\ last.ret = -ENOENT

\* C7: an open of a path that exists yields a handle with the raw descriptor
\* and no stream; an open of an absent path with a true verdict yields a
\* handle with the stream and no descriptor when path.gz can be opened and
\* wrapped, and fails with -ENOENT when it cannot; every handle that has not
\* been released holds exactly one of the two
C7_OpenPolicy ==
    /\ last.op = "open" =>
          /\ (Exists(store, last.path) /\ last.fault # "fdopen") =>
                /\ last.ret = 0
                /\ handles[last.h].fdSet /\ ~handles[last.h].fhSet
          /\ (~Exists(store, last.path) /\ last.calls[1].ret # 0) =>
                IF (last.path \o GZ) \in store
                   /\ last.fault \notin {"gzopen", "dopen"}
                THEN /\ last.ret = 0
                     /\ handles[last.h].fhSet /\ ~handles[last.h].fdSet
                ELSE /\ last.ret = -ENOENT
                     /\ last.h = 0
          /\ last.ret # 0 => last.h = 0
    /\ \A h \in DOMAIN handles :
          ~handles[h].freed => (handles[h].fhSet # handles[h].fdSet)

\* C7: a handle with a stream and no descriptor has been read from
C7_Witness ==
    /\ last.op = "read"
    /\ last.ret > 0
    /\ handles[last.h].fhSet
    /\ ~handles[last.h].fdSet
    /\ ~handles[last.h].freed

\* the bytes a read of size bytes at offset returns of a file of len bytes
Avail(len, size, offset) ==
    IF len - offset < 0 THEN 0
    ELSE IF len - offset < size THEN len - offset ELSE size

\* C8: a read on a handle with a stream seeks once; when the seek fails it
\* returns the error of the seek and reads nothing; otherwise it reads the
\* stream once and returns the count of that read, short or zero as it may
\* be; a read on a handle with a descriptor makes one positioned read and
\* leaves every stream alone
C8_Read ==
    last.op = "read" =>
        IF handles[last.h].fhSet
        THEN /\ last.io.seeks = 1
             /\ last.io.preads = 0
             /\ last.io.seekRet = -1 =>
                   /\ last.io.reads = 0
                   /\ last.ret = -EIO
             /\ last.io.seekRet = 0 =>
                   /\ last.io.reads = 1
                   /\ last.io.readRet >= 0 =>
                         /\ last.ret = last.io.readRet
                         /\ last.ret = Avail(ULen, last.size_arg, last.offset)
                   /\ last.io.readRet < 0 => last.ret = -EIO
        ELSE /\ last.io.preads = 1
             /\ last.io.seeks = 0
             /\ last.io.reads = 0
             /\ handles[last.h].stream = NewStream(last.path)
             /\ last.io.readRet >= 0 =>
                   last.ret = Avail(PhysSize(last.path), last.size_arg,
                                    last.offset)

\* C8: a read of a stream near its end has returned fewer bytes than asked
C8_Witness ==
    /\ last.op = "read"
    /\ handles[last.h].fhSet
    /\ last.io.seekRet = 0
    /\ last.io.reads = 1
    /\ last.ret > 0
    /\ last.ret < last.size_arg

\* C8: a read of a stream has failed in the seek
C8_SeekFails ==
    /\ last.op = "read"
    /\ handles[last.h].fhSet
    /\ last.io.seekRet = -1
    /\ last.ret = -EIO

\* C9 as stated: every descriptor or stream that open acquires is closed
\* exactly once, by release after a successful open and by open itself when
\* it fails; a release of a null handle closes nothing; a second release of
\* a handle closes and frees nothing again
C9_ClosedOnce ==
    /\ ~badClose
    /\ ~badFree
    /\ \A h \in DOMAIN handles :
          handles[h].freed => handles[h].fhCloses + handles[h].fdCloses = 1
    /\ (last.op = "open" /\ last.ret # 0) => last.io.opened = last.io.closed
    /\ (last.op = "release" /\ last.h = 0) =>
          last.io.closed = 0 /\ last.io.freed = 0

\* the cached copy of the index of the file asked for last is not there
IndexUnavailable ==
    (Basename(last.path) \o GZ \o GZI) \notin DOMAIN idxCache

\* C10 as stated: when the size of a synthesized file is resolved, its
\* container can be opened and read, and the cached copy of its index
\* cannot be opened, get_unzipped_size scans the stream from offset 0 and
\* returns the uncompressed length
C10_Fallback ==
    (/\ last.op = "getattr"
     /\ last.size.called
     /\ last.fault \in {"none", "copy"}
     /\ (last.path \o GZ) \in store
     /\ IndexUnavailable)
        => /\ last.size.scanned
           /\ last.size.start = 0
           /\ last.size.ret = ULen

\* the request served by this step is an attribute lookup whose scan for the
\* end of the stream met a failing read
ScanErrorStep ==
    /\ last'.op = "getattr"
    /\ last'.size.called
    /\ last'.size.scanned
    /\ last'.fault = "scanread"

\* C11: when a read of the scan for the end of the stream fails, the size
\* resolution returns 0, the size cache is left as it was, and the getattr
\* returns 0 with the metadata of path.gz and size 0
C11_ScanError ==
    [][ScanErrorStep =>
          /\ last'.size.ret = 0
          /\ sizeCache' = sizeCache
          /\ last'.ret = 0
          /\ last'.st = [Meta(last'.path \o GZ) EXCEPT !.size = 0]]_vars

\* C11: a getattr whose scan met a failing read has returned 0 with size 0
\* and a later one may recompute: no size is in the cache
C11_Witness ==
    /\ last.op = "getattr"
    /\ last.size.called
    /\ last.size.scanned
    /\ last.fault = "scanread"
    /\ last.ret = 0
    /\ last.st.size = 0
    /\ Basename(last.path) \notin DOMAIN sizeCache

\* C12 as stated: once the container has been replaced by one of another
\* size after a size was cached, the next size resolution does not return
\* the cached value: it scans the new container and returns its length
C12_Fresh ==
    (/\ last.op = "getattr"
     /\ last.size.called
     /\ last.fault = "none"
     /\ index = "good"
     /\ container.stale)
        => /\ last.size.scanned
           /\ last.size.ret = container.len

\* the uncompressed offset of the last record of the index w
LastRecordOffset(w) == w[Len(w)]

\* C13 as stated: with an index of a count N and N + 1 records, the offset
\* the size resolution seeks to and scans from is the uncompressed offset of
\* record N, the last record
C13_LastRecord ==
    (/\ last.op = "getattr"
     /\ last.size.scanned
     /\ (Basename(last.path) \o GZ \o GZI) \in DOMAIN idxCache
     /\ WellFormed(idxCache[Basename(last.path) \o GZ \o GZI]))
        => last.size.start =
              LastRecordOffset(idxCache[Basename(last.path) \o GZ \o GZI])

\* C14: the reads of two callers on one handle with a stream do not
\* interleave: every read that returned bytes read them at the offset it
\* asked for, as many as the stream holds from there
C14_ReadsApart ==
    \A w \in Workers :
        (inflight[w].pc = "done" /\ inflight[w].op = "read"
         /\ inflight[w].ret >= 0)
            => /\ inflight[w].at = inflight[w].offset
               /\ inflight[w].ret =
                     Avail(container.len, BufSize, inflight[w].offset)

\* C14: two callers have read one handle at different offsets
C14_Witness ==
    /\ inflight[1].pc = "done" /\ inflight[1].op = "read"
    /\ inflight[2].pc = "done" /\ inflight[2].op = "read"
    /\ inflight[1].h = inflight[2].h
    /\ inflight[1].offset # inflight[2].offset
    /\ inflight[1].ret > 0
    /\ inflight[2].ret > 0
    /\ inflight[1].at = inflight[1].offset
    /\ inflight[2].at = inflight[2].offset

\* C15: the attribute lookups of two callers for one synthesized path return
\* the same size
C15_SameSize ==
    \A v, w \in Workers :
        (/\ inflight[v].pc = "done" /\ inflight[v].op = "getattr"
         /\ inflight[w].pc = "done" /\ inflight[w].op = "getattr"
         /\ inflight[v].path = inflight[w].path)
            => /\ inflight[v].ret = inflight[w].ret
               /\ inflight[v].size = inflight[w].size

\* C15: two callers have looked up the synthesized a, the first of them
\* copied the index, and both got the uncompressed length
C15_Witness ==
    /\ inflight[1].pc = "done" /\ inflight[1].op = "getattr"
    /\ inflight[2].pc = "done" /\ inflight[2].op = "getattr"
    /\ inflight[1].ret = 0
    /\ inflight[2].ret = 0
    /\ inflight[1].size = ULen
    /\ inflight[2].size = ULen
    /\ SynthIn(dir, A)

\* C16 as stated: started without -m (and without -h), the process ends
\* with a non-zero exit status and never reaches the main loop of the
\* filesystem
C16_MissingMount ==
    (/\ proc.pc # "start"
     /\ "m" \notin proc.args
     /\ "h" \notin proc.args)
        => /\ proc.pc # "mounted"
           /\ proc.status # 0

\* C17 as stated: on every return path of get_unzipped_size every
\* descriptor and stream it opened has been closed
C17_NothingHeld ==
    (last.op = "getattr" /\ last.size.called)
        => last.size.opened = last.size.closed

\* C20 as stated: on a store that has not changed, every non-zero size
\* that get_unzipped_size returns, and every size it leaves in the size
\* cache, is the uncompressed length of the container, whatever the index
\* file holds
C20_TrueLength ==
    (~changed /\ last.op = "getattr" /\ last.size.called) =>
        /\ last.size.ret # 0 => last.size.ret = container.len
        /\ (Basename(last.path) \in DOMAIN sizeCache
            /\ sizeCache[Basename(last.path)] # Short)
               => sizeCache[Basename(last.path)] = container.len

\* getattr and open of name in the directory listed last, as they would be
\* answered now
GetattrOf(name) ==
    fuse_bgzip_getattr(FusePath(PathIn(last.path, name)), store, tdb,
                       sizeCache, idxCache, "none")

OpenOf(name) ==
    fuse_bgzip_open(FusePath(PathIn(last.path, name)), store, tdb,
                    idxCache, "none")

\* the listing emitted name in place of the index file name.gz.gzi
InPlaceOfIndex(name) ==
    \E j \in DOMAIN last.calls :
        /\ last.calls[j].key = PathIn(last.path, name \o GZ \o GZI)
        /\ last.calls[j].ret # 0

\* C18 as stated: on a store that has not changed, getattr of every name a
\* listing emits does not fail with -ENOENT, and for every name emitted in
\* place of an index file getattr resolves the size and open yields a handle
\* with a stream
C18_Consistent ==
    (Listed /\ ~changed) =>
        \A i \in DOMAIN last.emitted :
            /\ GetattrOf(last.emitted[i]).ret # -ENOENT
            /\ InPlaceOfIndex(last.emitted[i]) =>
                  /\ GetattrOf(last.emitted[i]).size.called
                  /\ OpenOf(last.emitted[i]).ret = 0
                  /\ OpenOf(last.emitted[i]).file.fhSet

\* entry n of directory D is the container or the index of a logical file
\* that is absent while its container and index exist
OfSynthesizedPair(D, n) ==
    \/ EndsWith(n, GZ) /\ SynthIn(D, DropLast(n, 3))
    \/ EndsWith(n, GZ \o GZI) /\ SynthIn(D, DropLast(n, 7))

\* C19 as stated: a listing emits exactly once, under its own name, every
\* file of the directory that is neither the container nor the index of a
\* synthesized logical file
C19_OnlyPair ==
    (Listed /\ ~changed) =>
        \A n \in QueryNames :
            (PathIn(last.path, n) \in store
             /\ ~OfSynthesizedPair(last.path, n))
                => Count(last.emitted, n) = 1

\* the synthesized path p has its container and its index in the store
Backed(p) == p \notin store /\ (p \o GZ) \in store /\ (p \o GZ \o GZI) \in store

\* the logical file of the same name as p in the other directory
Twin(p) ==
    PathIn(IF DirOf(p) = ROOT THEN DirD ELSE ROOT, Basename(p))

\* the request served last was for a synthesized path whose twin in the
\* other directory is synthesized as well, from a container of another
\* length
TwinsDiffer ==
    /\ Backed(last.path)
    /\ Backed(Twin(last.path))
    /\ ContainerLen(last.path \o GZ) # ContainerLen(Twin(last.path) \o GZ)

\* C21 as stated: for two synthesized paths of the same base name in
\* different directories whose containers differ, a getattr that succeeds
\* without a failure reports the uncompressed length of the path's own
\* container, and an open that loads an index loads the words of the
\* path's own index file, whichever of the two paths was accessed first
C21_OwnFiles ==
    (TwinsDiffer /\ last.ret = 0 /\ last.fault = "none") =>
        /\ last.op = "getattr" =>
              last.st.size = ContainerLen(last.path \o GZ)
        /\ (last.op = "open" /\ handles[last.h].stream.idx) =>
              idxCache[Basename(last.path) \o GZ \o GZI]
                  = IndexContent(last.path \o GZ \o GZI)

====
